---- MODULE Spec2Model ----
(***************************************************************************)
(* Polygon persistence service of leaflet-polygon-manager.                 *)
(*                                                                         *)
(* The state is the "polygons" table, the storage's id sequence, the wall  *)
(* clock read by datetime.utcnow(), and the last service call with the     *)
(* value it returned.  Every PolygonService method is one action; the      *)
(* storage layer may fail at any of the steps the method performs          *)
(* (open the session, read, add, commit, refresh, delete).                 *)
(*                                                                         *)
(* Spec is the service on a storage layer that does not fail, SpecFaults   *)
(* the service on one that may, SpecApp the map page (MapApp) that calls   *)
(* the service, SpecConcurrent two callers whose calls overlap.            *)
(***************************************************************************)
EXTENDS Integers, Sequences, FiniteSets, TLC

VARIABLES db, next_id, now, call, ret, ncalls, nfaults, open_sessions,
          current_drawing_data, save_card_visible, ui, nevents,
          sessions, commit_log, nstarted

appvars == <<current_drawing_data, save_card_visible, ui, nevents>>

concvars == <<sessions, commit_log, nstarted>>

vars == <<db, next_id, now, call, ret, ncalls, nfaults, open_sessions,
          current_drawing_data, save_card_visible, ui, nevents,
          sessions, commit_log, nstarted>>

----------------------------------------------------------------------------
(* Bounds of the model.                                                    *)

MaxId == 2
MaxClock == 1
MaxCalls == 4
MaxFaultyCalls == 3
MaxFaults == 1
MaxEvents == 5
MaxConcurrentCalls == 3

----------------------------------------------------------------------------
(* Optional values: None is the empty set, Some(x) the singleton.          *)

None == {}
Some(x) == {x}
The(o) == CHOOSE x \in o : TRUE

----------------------------------------------------------------------------
(* Strings are sequences of characters.                                    *)

IsSpace(c) == c = " "

RECURSIVE LStrip(_)
LStrip(s) == IF s # <<>> /\ IsSpace(Head(s)) THEN LStrip(Tail(s)) ELSE s

RECURSIVE RStrip(_)
RStrip(s) ==
    IF s # <<>> /\ IsSpace(s[Len(s)]) THEN RStrip(SubSeq(s, 1, Len(s) - 1)) ELSE s

(* str.strip()                                                             *)
Strip(s) == RStrip(LStrip(s))

Repeat(c, n) == [i \in 1..n |-> c]

----------------------------------------------------------------------------
(* Field constraints of the schemas.                                       *)

NameMaxLength == 255
NameMinLength == 1
CoordinatesMinItems == 1

NameEmpty == <<>>
NameBlank == <<" ">>
NameA == <<"a">>
NameTooLong == Repeat("a", NameMaxLength + 1)


(* Rings of [longitude, latitude] pairs.                                   *)
RingA == << <<0, 0>>, <<1, 0>>, <<1, 1>>, <<0, 0>> >>
RingB == << <<2, 2>>, <<3, 2>>, <<3, 3>>, <<2, 2>> >>

CoordsEmpty == <<>>
CoordsA == <<RingA>>
CoordsB == <<RingB>>


(* Python values of a properties mapping, tagged with their type.          *)
PropsBlue == [color |-> <<"str", "blue">>]
PropsTagged == [area |-> <<"float", 500>>,
                flag |-> <<"bool", TRUE>>,
                tags |-> <<"list", << <<"str", "zone-a">> >> >>]

----------------------------------------------------------------------------
(* The JSON columns: the value is written as a JSON document and read back *)
(* as a Python value.                                                      *)

JsonScalar(v) ==
    CASE v[1] = "str" -> <<"string", v[2]>>
      [] v[1] = "float" -> <<"number", v[2]>>
      [] v[1] = "bool" -> <<"boolean", v[2]>>

JsonValue(v) ==
    IF v[1] = "list"
    THEN <<"array", [i \in DOMAIN v[2] |-> JsonScalar(v[2][i])]>>
    ELSE JsonScalar(v)

PyScalar(j) ==
    CASE j[1] = "string" -> <<"str", j[2]>>
      [] j[1] = "number" -> <<"float", j[2]>>
      [] j[1] = "boolean" -> <<"bool", j[2]>>

(* Mutant: a JSON array is read back as a tuple.                           *)
PyValue_tuple(j) ==
    IF j[1] = "array"
    THEN <<"tuple", [i \in DOMAIN j[2] |-> PyScalar(j[2][i])]>>
    ELSE PyScalar(j)

PyValue(j) ==
    IF j[1] = "array"
    THEN <<"list", [i \in DOMAIN j[2] |-> PyScalar(j[2][i])]>>
    ELSE PyScalar(j)

DumpProperties(p) == [k \in DOMAIN p |-> JsonValue(p[k])]
LoadProperties(j) == [k \in DOMAIN j |-> PyValue(j[k])]

DumpCoordinates(c) ==
    <<"array", [r \in DOMAIN c |->
        <<"array", [i \in DOMAIN c[r] |->
            <<"array", [x \in DOMAIN c[r][i] |-> <<"number", c[r][i][x]>>]>>]>>]>>

LoadCoordinates(j) ==
    [r \in DOMAIN j[2] |->
        [i \in DOMAIN j[2][r][2] |->
            [x \in DOMAIN j[2][r][2][i][2] |-> j[2][r][2][i][2][x][2]]]]

----------------------------------------------------------------------------
(* Schemas.                                                                *)

PolygonCreateValid(data) ==
    /\ Len(data.name) >= NameMinLength
    /\ Len(data.name) <= NameMaxLength
    /\ Len(data.coordinates) >= CoordinatesMinItems

(* The creation requests tried, valid or not.                              *)
CreateRequests ==
    {[name |-> NameA, coordinates |-> CoordsA, properties |-> PropsBlue],
     [name |-> NameBlank, coordinates |-> CoordsB, properties |-> PropsTagged],
     [name |-> NameEmpty, coordinates |-> CoordsA, properties |-> PropsBlue],
     [name |-> NameTooLong, coordinates |-> CoordsA, properties |-> PropsBlue],
     [name |-> NameA, coordinates |-> CoordsEmpty, properties |-> PropsBlue]}

PolygonCreate == {data \in CreateRequests : PolygonCreateValid(data)}

PolygonUpdateValid(data) ==
    /\ data.name # None =>
        /\ Len(The(data.name)) >= NameMinLength
        /\ Len(The(data.name)) <= NameMaxLength
    /\ data.coordinates # None =>
        Len(The(data.coordinates)) >= CoordinatesMinItems

(* The update requests tried, valid or not.                                *)
UpdateRequests ==
    {[name |-> None, coordinates |-> None, properties |-> None],
     [name |-> Some(NameBlank), coordinates |-> None, properties |-> None],
     [name |-> None, coordinates |-> Some(CoordsB), properties |-> None],
     [name |-> None, coordinates |-> None, properties |-> Some(PropsTagged)],
     [name |-> Some(NameA), coordinates |-> Some(CoordsA),
      properties |-> Some(PropsBlue)],
     [name |-> Some(NameEmpty), coordinates |-> None, properties |-> None],
     [name |-> Some(NameTooLong), coordinates |-> None, properties |-> None],
     [name |-> None, coordinates |-> Some(CoordsEmpty), properties |-> None]}

PolygonUpdate == {data \in UpdateRequests : PolygonUpdateValid(data)}

(* datetime.isoformat()                                                    *)
IsoFormat(t) == <<"iso", t>>

(* PolygonResponse.from_polygon                                            *)
from_polygon(polygon) ==
    [id |-> IF polygon.id # None THEN The(polygon.id) ELSE 0,
     name |-> polygon.name,
     coordinates |-> polygon.coordinates,
     properties |-> polygon.properties,
     created_at |-> IsoFormat(polygon.created_at),
     updated_at |-> IF polygon.updated_at # None
                    THEN Some(IsoFormat(The(polygon.updated_at)))
                    ELSE None]

----------------------------------------------------------------------------
(* Storage: the polygons table, keyed by id.                               *)

Ids == 1..MaxId

(* INSERT of a Polygon instance: the JSON columns are serialized.          *)
ToRow(polygon) ==
    [name |-> polygon.name,
     coordinates |-> DumpCoordinates(polygon.coordinates),
     properties |-> DumpProperties(polygon.properties),
     created_at |-> polygon.created_at,
     updated_at |-> polygon.updated_at]

(* A Polygon instance loaded from its row.                                 *)
FromRow(id, row) ==
    [id |-> Some(id),
     name |-> row.name,
     coordinates |-> LoadCoordinates(row.coordinates),
     properties |-> LoadProperties(row.properties),
     created_at |-> row.created_at,
     updated_at |-> row.updated_at]

(* Mutant: the write is not restricted to the row of the id.              *)
Put_all(table, id, polygon) ==
    [i \in DOMAIN table \cup {id} |-> ToRow(polygon)]

Put(table, id, polygon) ==
    [i \in DOMAIN table \cup {id} |-> IF i = id THEN ToRow(polygon) ELSE table[i]]

Remove(table, id) == [i \in DOMAIN table \ {id} |-> table[i]]

(* session.get(Polygon, polygon_id)                                        *)
SessionGet(table, id) ==
    IF id \in DOMAIN table THEN Some(FromRow(id, table[id])) ELSE None

----------------------------------------------------------------------------
(* Outcome of the body of a service method: the table and id sequence it   *)
(* leaves, the value it returns, the step at which the storage layer       *)
(* failed ("none" if it did not), whether an exception leaves the method,  *)
(* and the state of the session of the call.                               *)

(* get_session(): a new session, unless the storage layer fails to open    *)
(* one.                                                                    *)
get_session(f) == IF f = "open" THEN "none" ELSE "open"

(* Leaving the context of get_session() closes the session.                *)
SessionExit(session) == IF session = "open" THEN "closed" ELSE session

Return(table, seq, value) ==
    [table |-> table, seq |-> seq, ret |-> value, fault |-> "none",
     raised |-> FALSE, session |-> get_session("none")]

(* A storage exception at step f: what was committed stays, the rest of    *)
(* the session is discarded.                                               *)
Raise(table, seq, f) ==
    [table |-> table, seq |-> seq, ret |-> None, fault |-> f,
     raised |-> TRUE, session |-> get_session(f)]

(* Mutant: an exception in the block leaves the session open.              *)
With_leak(out) ==
    IF out.raised THEN out ELSE [out EXCEPT !.session = SessionExit(@)]

(* with get_session() as session: ... the context is left when the block   *)
(* returns and when it raises.                                             *)
With(out) == [out EXCEPT !.session = SessionExit(@)]

(* Mutant: the exception is logged and raised again.                       *)
Catch_reraise(out, fallback) ==
    IF out.raised THEN [out EXCEPT !.ret = fallback] ELSE out

(* try: ... except Exception: log and return the fallback value.           *)
Catch(out, fallback) ==
    IF out.raised THEN [out EXCEPT !.ret = fallback, !.raised = FALSE] ELSE out

(* Mutant: updated_at defaults to the creation time.                       *)
NewPolygon_stamped(polygon_data, clock) ==
    [id |-> None,
     name |-> polygon_data.name,
     coordinates |-> polygon_data.coordinates,
     properties |-> polygon_data.properties,
     created_at |-> clock,
     updated_at |-> Some(clock)]

(* Polygon(name=..., coordinates=..., properties=...) with the defaults of *)
(* the other fields.                                                       *)
NewPolygon(polygon_data, clock) ==
    [id |-> None,
     name |-> polygon_data.name,
     coordinates |-> polygon_data.coordinates,
     properties |-> polygon_data.properties,
     created_at |-> clock,
     updated_at |-> None]

(* Mutant: the timestamp method stamps created_at as well.                 *)
update_timestamp_both(polygon, clock) ==
    [polygon EXCEPT !.updated_at = Some(clock), !.created_at = clock]

(* Polygon.update_timestamp                                                *)
update_timestamp(polygon, clock) == [polygon EXCEPT !.updated_at = Some(clock)]

(* Mutant: supplied properties are merged into the stored mapping.         *)
ApplyUpdate_merge(polygon, polygon_data) ==
    [polygon EXCEPT
        !.name = IF polygon_data.name # None
                 THEN The(polygon_data.name) ELSE @,
        !.coordinates = IF polygon_data.coordinates # None
                        THEN The(polygon_data.coordinates) ELSE @,
        !.properties =
            IF polygon_data.properties # None
            THEN LET new == The(polygon_data.properties)
                 IN [k \in DOMAIN @ \cup DOMAIN new |->
                        IF k \in DOMAIN new THEN new[k] ELSE @[k]]
            ELSE @]

(* Mutant: the update replaces the properties, supplied or not.            *)
ApplyUpdate_replace(polygon, polygon_data) ==
    [polygon EXCEPT
        !.name = IF polygon_data.name # None
                 THEN The(polygon_data.name) ELSE @,
        !.coordinates = IF polygon_data.coordinates # None
                        THEN The(polygon_data.coordinates) ELSE @,
        !.properties = IF polygon_data.properties # None
                       THEN The(polygon_data.properties) ELSE <<>>]

(* "Update fields that were provided"                                      *)
ApplyUpdate(polygon, polygon_data) ==
    LET p1 == IF polygon_data.name # None
              THEN [polygon EXCEPT !.name = The(polygon_data.name)]
              ELSE polygon
        p2 == IF polygon_data.coordinates # None
              THEN [p1 EXCEPT !.coordinates = The(polygon_data.coordinates)]
              ELSE p1
    IN IF polygon_data.properties # None
       THEN [p2 EXCEPT !.properties = The(polygon_data.properties)]
       ELSE p2

(* The steps at which the storage layer can fail, per method.              *)
CreateFaults == {"none", "open", "add", "commit", "refresh"}
ReadFaults == {"none", "open", "read"}
UpdateFaults == {"none", "open", "read", "add", "commit", "refresh"}
DeleteFaults == {"none", "open", "read", "delete", "commit"}

create_polygon(table, seq, clock, polygon_data, f) ==
    Catch(With(
        IF f = "open" THEN Raise(table, seq, f)
        ELSE LET polygon == NewPolygon(polygon_data, clock)
             IN IF f \in {"add", "commit"} THEN Raise(table, seq, f)
                ELSE LET committed == Put(table, seq, polygon)
                     IN IF f = "refresh" THEN Raise(committed, seq + 1, f)
                        ELSE LET refreshed == FromRow(seq, committed[seq])
                             IN IF refreshed.id = None
                                THEN Return(committed, seq + 1, None)
                                ELSE Return(committed, seq + 1,
                                            Some(from_polygon(refreshed)))),
        None)

get_polygon(table, seq, polygon_id, f) ==
    Catch(With(
        IF f \in {"open", "read"} THEN Raise(table, seq, f)
        ELSE LET polygon == SessionGet(table, polygon_id)
             IN IF polygon = None
                THEN Return(table, seq, None)
                ELSE Return(table, seq, Some(from_polygon(The(polygon))))),
        None)

(* Mutant: the query returns the first row only.                           *)
OrderByCreatedAtDesc_first(table) ==
    {order \in UNION {[1..n -> DOMAIN table] : n \in {0, 1}} :
        /\ Len(order) = IF DOMAIN table = {} THEN 0 ELSE 1
        /\ \A i \in DOMAIN order : \A id \in DOMAIN table :
            table[order[i]].created_at >= table[id].created_at}

(* Mutant: ORDER BY created_at ASC.                                        *)
OrderByCreatedAtDesc_asc(table) ==
    {order \in [1..Cardinality(DOMAIN table) -> DOMAIN table] :
        /\ \A i, j \in DOMAIN order : i # j => order[i] # order[j]
        /\ \A i, j \in DOMAIN order :
            i < j => table[order[i]].created_at <= table[order[j]].created_at}

(* The orders in which ORDER BY created_at DESC may return the rows: rows  *)
(* with equal created_at come in an order the storage engine chooses.     *)
OrderByCreatedAtDesc(table) ==
    {order \in [1..Cardinality(DOMAIN table) -> DOMAIN table] :
        /\ \A i, j \in DOMAIN order : i # j => order[i] # order[j]
        /\ \A i, j \in DOMAIN order :
            i < j => table[order[i]].created_at >= table[order[j]].created_at}

PolygonListResponse(polygons) == [polygons |-> polygons, total |-> Len(polygons)]

list_polygons(table, seq, order, f) ==
    Catch(With(
        IF f \in {"open", "read"} THEN Raise(table, seq, f)
        ELSE LET polygon_responses ==
                     [i \in DOMAIN order |->
                         from_polygon(FromRow(order[i], table[order[i]]))]
             IN Return(table, seq, PolygonListResponse(polygon_responses))),
        PolygonListResponse(<<>>))

(* Mutant: an absent id is inserted instead of reported as not found.      *)
update_polygon_upsert(table, seq, clock, polygon_id, polygon_data, f) ==
    Catch(With(
        IF f \in {"open", "read"} THEN Raise(table, seq, f)
        ELSE LET polygon == SessionGet(table, polygon_id)
                 base == IF polygon = None
                         THEN [id |-> Some(polygon_id), name |-> NameA,
                               coordinates |-> CoordsA, properties |-> PropsBlue,
                               created_at |-> clock, updated_at |-> None]
                         ELSE The(polygon)
                 updated == update_timestamp(ApplyUpdate(base, polygon_data), clock)
             IN IF f \in {"add", "commit"} THEN Raise(table, seq, f)
                ELSE LET committed == Put(table, polygon_id, updated)
                     IN IF f = "refresh" THEN Raise(committed, seq, f)
                        ELSE Return(committed, seq,
                                Some(from_polygon(
                                    FromRow(polygon_id, committed[polygon_id]))))),
        None)

update_polygon(table, seq, clock, polygon_id, polygon_data, f) ==
    Catch(With(
        IF f \in {"open", "read"} THEN Raise(table, seq, f)
        ELSE LET polygon == SessionGet(table, polygon_id)
             IN IF polygon = None THEN Return(table, seq, None)
                ELSE LET updated == update_timestamp(
                                        ApplyUpdate(The(polygon), polygon_data), clock)
                     IN IF f \in {"add", "commit"} THEN Raise(table, seq, f)
                        ELSE LET committed == Put(table, polygon_id, updated)
                             IN IF f = "refresh" THEN Raise(committed, seq, f)
                                ELSE Return(committed, seq,
                                        Some(from_polygon(
                                            FromRow(polygon_id, committed[polygon_id]))))),
        None)

(* Mutant: the delete is never committed.                                  *)
delete_polygon_nocommit(table, seq, polygon_id, f) ==
    Catch(With(
        IF f \in {"open", "read"} THEN Raise(table, seq, f)
        ELSE LET polygon == SessionGet(table, polygon_id)
             IN IF polygon = None THEN Return(table, seq, FALSE)
                ELSE IF f \in {"delete", "commit"} THEN Raise(table, seq, f)
                ELSE Return(table, seq, TRUE)),
        FALSE)

delete_polygon(table, seq, polygon_id, f) ==
    Catch(With(
        IF f \in {"open", "read"} THEN Raise(table, seq, f)
        ELSE LET polygon == SessionGet(table, polygon_id)
             IN IF polygon = None THEN Return(table, seq, FALSE)
                ELSE IF f \in {"delete", "commit"} THEN Raise(table, seq, f)
                ELSE Return(Remove(table, polygon_id), seq, TRUE)),
        FALSE)

(* Mutant: the test of the row is inverted.                                *)
polygon_exists_inverted(table, seq, polygon_id, f) ==
    Catch(With(
        IF f \in {"open", "read"} THEN Raise(table, seq, f)
        ELSE Return(table, seq, SessionGet(table, polygon_id) = None)),
        FALSE)

polygon_exists(table, seq, polygon_id, f) ==
    Catch(With(
        IF f \in {"open", "read"} THEN Raise(table, seq, f)
        ELSE Return(table, seq, SessionGet(table, polygon_id) # None)),
        FALSE)

----------------------------------------------------------------------------
(* The state machine.                                                      *)

NoData == <<>>

(* One service call: op(id, data), with the storage failing at step f; a   *)
(* run makes at most limit calls.                                          *)
Called(op, id, data, f, out, limit) ==
    /\ ncalls < limit
    /\ f # "none" => nfaults < MaxFaults
    /\ out.fault = f
    /\ db' = out.table
    /\ next_id' = out.seq
    /\ ret' = out.ret
    /\ call' = [op |-> op, id |-> id, data |-> data,
                fault |-> out.fault, raised |-> out.raised,
                session |-> out.session]
    /\ open_sessions' = IF out.session = "open"
                        THEN open_sessions + 1 ELSE open_sessions
    /\ ncalls' = ncalls + 1
    /\ nfaults' = IF out.fault # "none" THEN nfaults + 1 ELSE nfaults
    /\ UNCHANGED <<now, appvars, concvars>>

(* The callers that run service methods at the same time.                  *)
Procs == {1, 2}

(* The session of a caller: where its call stands, the number of the call, *)
(* the method and its arguments, the instance the session holds, the       *)
(* instance as it was loaded, the value of the id sequence when the call   *)
(* started, and the value the last call returned.                          *)
IdleSession ==
    [pc |-> "idle", n |-> 0, op |-> "none", id |-> 0, data |-> NoData,
     polygon |-> None, loaded |-> None, seen |-> 0, result |-> None]

(* The last handler of the map page that ran: the text or the name it was *)
(* given, the type of the notification it showed, whether an exception    *)
(* left it, the request it passed to create_polygon and what that          *)
(* returned.                                                               *)
NoEvent ==
    [handler |-> "none", value |-> "", name |-> <<>>, notify |-> "none",
     raised |-> FALSE, request |-> None, result |-> None]

(* After MapApp.__init__ and the construction of the page: no drawing, the *)
(* save form built and hidden.                                             *)
Init ==
    /\ db = <<>>
    /\ next_id = 1
    /\ now = 0
    /\ call = [op |-> "init", id |-> 0, data |-> NoData,
               fault |-> "none", raised |-> FALSE, session |-> "none"]
    /\ open_sessions = 0
    /\ ret = None
    /\ ncalls = 0
    /\ nfaults = 0
    /\ current_drawing_data = None
    /\ save_card_visible = FALSE
    /\ ui = NoEvent
    /\ nevents = 0
    /\ sessions = [p \in Procs |-> IdleSession]
    /\ commit_log = <<>>
    /\ nstarted = 0

(* The wall clock advances between calls.                                  *)
Tick ==
    /\ now < MaxClock
    /\ now' = now + 1
    /\ UNCHANGED <<db, next_id, call, ret, ncalls, nfaults, open_sessions, appvars,
                   concvars>>

Create(faults, limit) ==
    /\ next_id <= MaxId
    /\ \E data \in PolygonCreate, f \in faults :
        Called("create", 0, data, f,
               create_polygon(db, next_id, now, data, f), limit)

Get(faults, limit) ==
    \E id \in Ids, f \in faults :
        Called("get", id, NoData, f, get_polygon(db, next_id, id, f), limit)

List(faults, limit) ==
    \E order \in OrderByCreatedAtDesc(db), f \in faults :
        Called("list", 0, NoData, f, list_polygons(db, next_id, order, f), limit)

Update(faults, limit) ==
    \E id \in Ids, data \in PolygonUpdate, f \in faults :
        Called("update", id, data, f,
               update_polygon(db, next_id, now, id, data, f), limit)

Delete(faults, limit) ==
    \E id \in Ids, f \in faults :
        Called("delete", id, NoData, f, delete_polygon(db, next_id, id, f), limit)

Exists(faults, limit) ==
    \E id \in Ids, f \in faults :
        Called("exists", id, NoData, f, polygon_exists(db, next_id, id, f), limit)

(* The service on a storage layer that does not fail.                      *)
NoFault == {"none"}

CreatePolygon == Create(NoFault, MaxCalls)
GetPolygon == Get(NoFault, MaxCalls)
ListPolygons == List(NoFault, MaxCalls)
UpdatePolygon == Update(NoFault, MaxCalls)
DeletePolygon == Delete(NoFault, MaxCalls)
PolygonExists == Exists(NoFault, MaxCalls)

Next ==
    \/ Tick
    \/ CreatePolygon
    \/ GetPolygon
    \/ ListPolygons
    \/ UpdatePolygon
    \/ DeletePolygon
    \/ PolygonExists

Spec == Init /\ [][Next]_vars

(* The service on a storage layer that may fail at any step of a call.     *)
CreatePolygonFaulty == Create(CreateFaults, MaxFaultyCalls)
GetPolygonFaulty == Get(ReadFaults, MaxFaultyCalls)
ListPolygonsFaulty == List(ReadFaults, MaxFaultyCalls)
UpdatePolygonFaulty == Update(UpdateFaults, MaxFaultyCalls)
DeletePolygonFaulty == Delete(DeleteFaults, MaxFaultyCalls)
PolygonExistsFaulty == Exists(ReadFaults, MaxFaultyCalls)

NextFaults ==
    \/ Tick
    \/ CreatePolygonFaulty
    \/ GetPolygonFaulty
    \/ ListPolygonsFaulty
    \/ UpdatePolygonFaulty
    \/ DeletePolygonFaulty
    \/ PolygonExistsFaulty

SpecFaults == Init /\ [][NextFaults]_vars

----------------------------------------------------------------------------
(* The map page (MapApp).                                                  *)

NamePadded == <<" ", "a", " ">>

(* The names typed into the save form.                                     *)
TypedNames == {NameEmpty, NameBlank, NameA, NamePadded, NameTooLong}

(* The texts that are JSON documents, with the document each denotes.      *)
JsonDocuments ==
    {[text |-> "[[[0,0],[1,0],[1,1],[0,0]]]", json |-> DumpCoordinates(CoordsA)],
     [text |-> "[[[2,2],[3,2],[3,3],[2,2]]]", json |-> DumpCoordinates(CoordsB)],
     [text |-> "[]", json |-> <<"array", <<>>>>],
     [text |-> "null", json |-> <<"null">>]}

(* The values the hidden input delivers: nothing, texts that are not JSON  *)
(* and the documents above.                                                *)
EventValues == {"", "polygon", "[[[0,0],[1,0]"} \cup {d.text : d \in JsonDocuments}

(* json.loads: the Python value of the document, or JSONDecodeError.       *)
json_loads(text) ==
    IF \E d \in JsonDocuments : d.text = text
    THEN LET d == CHOOSE d \in JsonDocuments : d.text = text
         IN [raised |-> FALSE,
             value |-> IF d.json = <<"null">> THEN None
                       ELSE Some(LoadCoordinates(d.json))]
    ELSE [raised |-> TRUE, value |-> None]

(* Outcome of a handler of the page.                                       *)
Handled(out, drawing, visible, notify, raised, request) ==
    [table |-> out.table, seq |-> out.seq, fault |-> out.fault,
     session |-> out.session, result |-> out.ret,
     drawing |-> drawing, visible |-> visible, notify |-> notify,
     raised |-> raised, request |-> request]

(* A handler that returns before it calls the service.                     *)
NoServiceCall(table, seq) ==
    [table |-> table, seq |-> seq, fault |-> "none", session |-> "none",
     ret |-> None, raised |-> FALSE]

(* Mutant: the save form is shown before the text is parsed.               *)
_on_polygon_data_received_show(table, seq, drawing, visible, value) ==
    LET idle == NoServiceCall(table, seq)
    IN IF value = "" THEN Handled(idle, drawing, visible, "none", FALSE, None)
       ELSE LET coordinates == json_loads(value)
            IN IF coordinates.raised
               THEN Handled(idle, drawing, TRUE, "negative", FALSE, None)
               ELSE Handled(idle, coordinates.value, TRUE, "positive", FALSE, None)

_on_polygon_data_received(table, seq, drawing, visible, value) ==
    LET idle == NoServiceCall(table, seq)
    IN IF value = "" THEN Handled(idle, drawing, visible, "none", FALSE, None)
       ELSE LET coordinates == json_loads(value)
            IN IF coordinates.raised
               THEN Handled(idle, drawing, visible, "negative", FALSE, None)
               ELSE Handled(idle, coordinates.value, TRUE, "positive", FALSE, None)

_clear_current_drawing(table, seq, drawing, visible) ==
    Handled(NoServiceCall(table, seq), None, visible, "info", FALSE, None)

_cancel_save(table, seq, drawing, visible) ==
    Handled(NoServiceCall(table, seq), None, FALSE, "info", FALSE, None)

(* Mutant: the name is passed as typed.                                    *)
SaveRequest_untrimmed(name, drawing) ==
    [name |-> name, coordinates |-> The(drawing),
     properties |-> [color |-> <<"str", "#3388ff">>]]

(* The request the save form builds.                                       *)
SaveRequest(name, drawing) ==
    [name |-> Strip(name), coordinates |-> The(drawing),
     properties |-> [color |-> <<"str", "#3388ff">>]]

(* Mutant: a successful save leaves the drawing and the form in place.     *)
_save_polygon_keep(table, seq, clock, drawing, visible, name, f) ==
    LET idle == NoServiceCall(table, seq)
    IN IF Len(name) = 0 \/ Len(Strip(name)) = 0
       THEN Handled(idle, drawing, visible, "warning", FALSE, None)
       ELSE IF drawing = None
       THEN Handled(idle, drawing, visible, "warning", FALSE, None)
       ELSE LET polygon_create == SaveRequest(name, drawing)
            IN IF ~PolygonCreateValid(polygon_create)
               THEN Handled(idle, drawing, visible, "negative", FALSE, None)
               ELSE LET out == create_polygon(table, seq, clock, polygon_create, f)
                    IN IF out.raised
                       THEN Handled(out, drawing, visible, "negative", FALSE,
                                    Some(polygon_create))
                       ELSE IF out.ret # None
                       THEN Handled(out, drawing, visible, "positive", FALSE,
                                    Some(polygon_create))
                       ELSE Handled(out, drawing, visible, "negative", FALSE,
                                    Some(polygon_create))

(* Mutant: the validation error of the request is not caught.              *)
_save_polygon_uncaught(table, seq, clock, drawing, visible, name, f) ==
    LET idle == NoServiceCall(table, seq)
    IN IF Len(name) = 0 \/ Len(Strip(name)) = 0
       THEN Handled(idle, drawing, visible, "warning", FALSE, None)
       ELSE IF drawing = None
       THEN Handled(idle, drawing, visible, "warning", FALSE, None)
       ELSE LET polygon_create == SaveRequest(name, drawing)
            IN IF ~PolygonCreateValid(polygon_create)
               THEN Handled(idle, drawing, visible, "none", TRUE, None)
               ELSE LET out == create_polygon(table, seq, clock, polygon_create, f)
                    IN IF out.raised
                       THEN Handled(out, drawing, visible, "negative", FALSE,
                                    Some(polygon_create))
                       ELSE IF out.ret # None
                       THEN Handled(out, None, FALSE, "positive", FALSE,
                                    Some(polygon_create))
                       ELSE Handled(out, drawing, visible, "negative", FALSE,
                                    Some(polygon_create))

(* The lists the handler reloads after a successful save are read with     *)
(* list_polygons, which changes nothing.                                   *)
_save_polygon(table, seq, clock, drawing, visible, name, f) ==
    LET idle == NoServiceCall(table, seq)
    IN IF Len(name) = 0 \/ Len(Strip(name)) = 0
       THEN Handled(idle, drawing, visible, "warning", FALSE, None)
       ELSE IF drawing = None
       THEN Handled(idle, drawing, visible, "warning", FALSE, None)
       ELSE LET polygon_create == SaveRequest(name, drawing)
            IN IF ~PolygonCreateValid(polygon_create)
               THEN Handled(idle, drawing, visible, "negative", FALSE, None)
               ELSE LET out == create_polygon(table, seq, clock, polygon_create, f)
                    IN IF out.raised
                       THEN Handled(out, drawing, visible, "negative", FALSE,
                                    Some(polygon_create))
                       ELSE IF out.ret # None
                       THEN Handled(out, None, FALSE, "positive", FALSE,
                                    Some(polygon_create))
                       ELSE Handled(out, drawing, visible, "negative", FALSE,
                                    Some(polygon_create))

_delete_polygon(table, seq, drawing, visible, polygon_id, f) ==
    LET out == delete_polygon(table, seq, polygon_id, f)
    IN IF out.ret
       THEN Handled(out, drawing, visible, "positive", FALSE, None)
       ELSE Handled(out, drawing, visible, "negative", FALSE, None)

(* One event of the page, handled by handler with outcome h; a run handles *)
(* at most MaxEvents events.                                               *)
Event(handler, value, name, f, h) ==
    /\ nevents < MaxEvents
    /\ f # "none" => nfaults < MaxFaults
    /\ h.fault = f
    /\ h.seq <= MaxId + 1
    /\ db' = h.table
    /\ next_id' = h.seq
    /\ current_drawing_data' = h.drawing
    /\ save_card_visible' = h.visible
    /\ ui' = [handler |-> handler, value |-> value, name |-> name,
              notify |-> h.notify, raised |-> h.raised,
              request |-> h.request, result |-> h.result]
    /\ nevents' = nevents + 1
    /\ nfaults' = IF h.fault # "none" THEN nfaults + 1 ELSE nfaults
    /\ open_sessions' = IF h.session = "open"
                        THEN open_sessions + 1 ELSE open_sessions
    /\ UNCHANGED <<now, call, ret, ncalls, concvars>>

OnPolygonDataReceived ==
    \E value \in EventValues :
        Event("received", value, <<>>, "none",
              _on_polygon_data_received(db, next_id, current_drawing_data,
                                        save_card_visible, value))

ClearCurrentDrawing ==
    Event("clear", "", <<>>, "none",
          _clear_current_drawing(db, next_id, current_drawing_data,
                                 save_card_visible))

CancelSave ==
    Event("cancel", "", <<>>, "none",
          _cancel_save(db, next_id, current_drawing_data, save_card_visible))

SavePolygon ==
    \E name \in TypedNames, f \in CreateFaults :
        Event("save", "", name, f,
              _save_polygon(db, next_id, now, current_drawing_data,
                            save_card_visible, name, f))

(* The delete button of a polygon of the list.                             *)
DeleteClicked ==
    \E polygon_id \in DOMAIN db, f \in DeleteFaults :
        Event("delete", "", <<>>, f,
              _delete_polygon(db, next_id, current_drawing_data,
                              save_card_visible, polygon_id, f))

NextApp ==
    \/ OnPolygonDataReceived
    \/ ClearCurrentDrawing
    \/ CancelSave
    \/ SavePolygon
    \/ DeleteClicked

SpecApp == Init /\ [][NextApp]_vars

----------------------------------------------------------------------------
(* Service calls that run at the same time.  A call is three steps: the    *)
(* work up to session.add, session.commit, and session.refresh with the    *)
(* return.  Each call has its own session; the storage layer applies the   *)
(* commits one after the other.  The calls overlap within one reading of  *)
(* the clock.                                                              *)

(* Mutant: the id is the one the sequence showed when the call started.    *)
InsertId_seen(seq, seen) == seen

(* The id the INSERT gives to the row of a primary key left unset.         *)
InsertId(seq, seen) == seq

Columns == {"name", "coordinates", "properties", "created_at", "updated_at"}

(* The columns whose value the call changed since the row was loaded.      *)
Dirty(loaded, polygon) ==
    {c \in Columns : ToRow(polygon)[c] # ToRow(loaded)[c]}

(* The UPDATE of the commit writes the columns in written, which are the   *)
(* changed ones or the whole row.                                          *)
WriteColumns(table, id, polygon, written) ==
    [i \in DOMAIN table |->
        IF i = id
        THEN [c \in Columns |->
                IF c \in written THEN ToRow(polygon)[c] ELSE table[i][c]]
        ELSE table[i]]

(* Mutant: the call returns the instance as the session holds it.          *)
Refresh_stale(table, id, polygon) == polygon

(* session.refresh(polygon)                                                *)
Refresh(table, id, polygon) == FromRow(id, table[id])

PendingCreates == {p \in Procs : sessions[p].pc = "pending" /\ sessions[p].op = "create"}

Started(p, op, id, data, session) ==
    /\ sessions[p].pc = "idle"
    /\ nstarted < MaxConcurrentCalls
    /\ nstarted' = nstarted + 1
    /\ sessions' = [sessions EXCEPT ![p] =
            [session EXCEPT !.n = nstarted + 1, !.op = op, !.id = id,
                            !.data = data, !.seen = next_id]]
    /\ UNCHANGED <<db, next_id, now, call, ret, ncalls, nfaults, open_sessions,
                   appvars, commit_log>>

(* create_polygon up to session.add                                        *)
StartCreate ==
    /\ next_id + Cardinality(PendingCreates) <= MaxId
    /\ \E p \in Procs, data \in PolygonCreate :
        Started(p, "create", 0, data,
                [IdleSession EXCEPT !.pc = "pending",
                                    !.polygon = Some(NewPolygon(data, now))])

(* update_polygon up to session.add; an absent id returns None at once.    *)
StartUpdate ==
    \E p \in Procs, id \in Ids, data \in PolygonUpdate :
        LET polygon == SessionGet(db, id)
        IN IF polygon = None
           THEN Started(p, "update", id, data, IdleSession)
           ELSE Started(p, "update", id, data,
                    [IdleSession EXCEPT
                        !.pc = "pending",
                        !.loaded = polygon,
                        !.polygon = Some(update_timestamp(
                                        ApplyUpdate(The(polygon), data), now))])

Committed(p, id, table, seq) ==
    /\ db' = table
    /\ next_id' = seq
    /\ sessions' = [sessions EXCEPT ![p].pc = "committed", ![p].id = id,
                                    ![p].polygon = Some([The(@) EXCEPT !.id = Some(id)])]
    /\ commit_log' = Append(commit_log,
                            [p |-> p, n |-> sessions[p].n,
                             op |-> sessions[p].op, id |-> id])
    /\ UNCHANGED <<now, call, ret, ncalls, nfaults, open_sessions, appvars,
                   nstarted>>

(* session.commit() of create_polygon: the INSERT.                         *)
CommitCreate ==
    \E p \in PendingCreates :
        LET id == InsertId(next_id, sessions[p].seen)
        IN Committed(p, id, Put(db, id, The(sessions[p].polygon)), next_id + 1)

(* session.commit() of update_polygon: the UPDATE.                         *)
CommitUpdate ==
    \E p \in Procs :
        /\ sessions[p].pc = "pending"
        /\ sessions[p].op = "update"
        /\ LET polygon == The(sessions[p].polygon)
               dirty == Dirty(The(sessions[p].loaded), polygon)
           IN \E written \in {dirty, Columns} :
                Committed(p, sessions[p].id,
                          WriteColumns(db, sessions[p].id, polygon, written),
                          next_id)

(* session.refresh(polygon) and the return of the response.                *)
Finish ==
    \E p \in Procs :
        /\ sessions[p].pc = "committed"
        /\ LET polygon == Refresh(db, sessions[p].id, The(sessions[p].polygon))
           IN sessions' = [sessions EXCEPT
                    ![p].pc = "idle",
                    ![p].result = IF polygon.id = None THEN None
                                  ELSE Some(from_polygon(polygon))]
        /\ UNCHANGED <<db, next_id, now, call, ret, ncalls, nfaults,
                       open_sessions, appvars, commit_log, nstarted>>

NextConcurrent ==
    \/ StartCreate
    \/ StartUpdate
    \/ CommitCreate
    \/ CommitUpdate
    \/ Finish

SpecConcurrent == Init /\ [][NextConcurrent]_vars

----------------------------------------------------------------------------
(* Properties of the service.                                              *)

(* The step is a call of method op.                                        *)
IsCall(op) == ncalls' = ncalls + 1 /\ call'.op = op

(* The step is a call of method op that met no storage failure.            *)
IsCleanCall(op) == IsCall(op) /\ call'.fault = "none"

Stored == DOMAIN db

(* C1: create_polygon with a valid request and no storage failure returns  *)
(* a polygon whose id is positive and held by no polygon stored before the *)
(* call, whose created_at is set and whose updated_at is absent; the store *)
(* afterwards holds the polygons it held before and exactly one more.      *)
C1_CreateAssignsFreshId ==
    [][IsCleanCall("create") =>
        /\ ret' # None
        /\ The(ret').id \in Nat \ {0}
        /\ The(ret').id \notin Stored
        /\ The(ret').created_at = IsoFormat(now)
        /\ The(ret').updated_at = None
        /\ Stored' = Stored \cup {The(ret').id}
        /\ Cardinality(Stored') = Cardinality(Stored) + 1
        /\ \A id \in Stored : db'[id] = db[id]]_vars

(* A create succeeded with id 2 in a store that already held polygon 1.    *)
C1_Witness ==
    /\ call.op = "create" /\ call.fault = "none"
    /\ ret # None /\ The(ret).id = 2
    /\ Stored = {1, 2}

(* C2: get_polygon called right after a successful create_polygon, with    *)
(* the id it returned, returns a polygon equal to the create result in id, *)
(* name, coordinates, properties, created_at and updated_at; name,         *)
(* coordinates and properties are those of the request.                    *)
C2_CreateGetRoundTrip ==
    [][(/\ call.op = "create" /\ call.fault = "none" /\ ret # None
        /\ IsCleanCall("get") /\ call'.id = The(ret).id) =>
        /\ ret' # None
        /\ The(ret').id = The(ret).id
        /\ The(ret').name = The(ret).name
        /\ The(ret').coordinates = The(ret).coordinates
        /\ The(ret').properties = The(ret).properties
        /\ The(ret').created_at = The(ret).created_at
        /\ The(ret').updated_at = The(ret).updated_at
        /\ The(ret').name = call.data.name
        /\ The(ret').coordinates = call.data.coordinates
        /\ The(ret').properties = call.data.properties]_vars

(* The second call of a run is a get that returns the polygon the first    *)
(* call created, with its list-valued, float and boolean properties.       *)
C2_Witness ==
    /\ ncalls = 2 /\ call.op = "get" /\ call.fault = "none"
    /\ ret # None
    /\ The(ret).properties = PropsTagged
    /\ The(ret).coordinates = CoordsB

(* C3: list_polygons without a storage failure returns one entry per       *)
(* stored polygon, none twice and none missing, and total is the number of *)
(* entries; on empty storage the sequence is empty and total is 0.         *)
C3_ListIsTheStore ==
    (call.op = "list" /\ call.fault = "none") =>
        /\ ret.total = Len(ret.polygons)
        /\ {ret.polygons[i].id : i \in DOMAIN ret.polygons} = Stored
        /\ Len(ret.polygons) = Cardinality(Stored)
        /\ \A i \in DOMAIN ret.polygons :
            ret.polygons[i] = from_polygon(FromRow(ret.polygons[i].id,
                                                   db[ret.polygons[i].id]))
        /\ Stored = {} => (ret.polygons = <<>> /\ ret.total = 0)

(* A non-empty list, returned by the fourth call of a run in which two     *)
(* polygons were created and a third call read, updated or deleted one.    *)
C3_Witness ==
    /\ call.op = "list" /\ call.fault = "none"
    /\ ret.total >= 1
    /\ next_id = 3
    /\ ncalls = 4

(* C4 as claimed: a polygon created by a later call comes before every     *)
(* polygon created by an earlier call (ids are assigned in call order),    *)
(* also when both calls read the same clock value.                         *)
C4_NewestCallFirst ==
    (call.op = "list" /\ call.fault = "none") =>
        \A i, j \in DOMAIN ret.polygons :
            i < j => ret.polygons[i].id > ret.polygons[j].id

(* C4, amended: whenever the created_at of polygon A is strictly earlier   *)
(* than the created_at of polygon B, B comes before A in the list,         *)
(* whatever updates A or B received.                                       *)
C4_LaterCreatedAtFirst ==
    (call.op = "list" /\ call.fault = "none") =>
        \A i, j \in DOMAIN ret.polygons :
            db[ret.polygons[j].id].created_at < db[ret.polygons[i].id].created_at
                => i < j

(* A list of two polygons created at different times, the older of which   *)
(* was updated after the newer one was created.                            *)
C4_Witness ==
    /\ call.op = "list" /\ call.fault = "none"
    /\ ret.total = 2
    /\ Stored = {1, 2}
    /\ db[1].created_at < db[2].created_at
    /\ db[1].updated_at = Some(db[2].created_at)

(* C5: a successful update_polygon changes exactly the supplied fields: an *)
(* omitted field keeps its stored value, a supplied one takes the supplied *)
(* value; updated_at is set to the time of the call.                       *)
C5_UpdateChangesOnlySupplied ==
    [][(IsCleanCall("update") /\ call'.id \in Stored) =>
        LET before == FromRow(call'.id, db[call'.id])
            after == FromRow(call'.id, db'[call'.id])
            data == call'.data
        IN /\ call'.id \in Stored'
           /\ after.name = IF data.name = None THEN before.name
                           ELSE The(data.name)
           /\ after.coordinates = IF data.coordinates = None THEN before.coordinates
                                  ELSE The(data.coordinates)
           /\ after.properties = IF data.properties = None THEN before.properties
                                 ELSE The(data.properties)
           /\ data.coordinates = None =>
                db'[call'.id].coordinates = db[call'.id].coordinates
           /\ data.properties = None =>
                db'[call'.id].properties = db[call'.id].properties
           /\ after.updated_at = Some(now)
           /\ ret' = Some(from_polygon(after))]_vars

(* An update that supplied only the name renamed a polygon whose other     *)
(* fields are not the ones any update request carries alone.               *)
C5_Witness ==
    /\ call.op = "update" /\ call.fault = "none" /\ ret # None
    /\ call.data.name = Some(NameBlank)
    /\ call.data.coordinates = None /\ call.data.properties = None
    /\ The(ret).name = NameBlank
    /\ The(ret).coordinates = CoordsA
    /\ The(ret).properties = PropsBlue
    /\ The(ret).updated_at # None

(* C6: without a storage failure, delete_polygon returns true exactly when *)
(* the id is stored, and the id is not stored afterwards; right after a    *)
(* delete that returned true, get_polygon of the id returns not-found,     *)
(* polygon_exists returns false and a second delete returns false.         *)
C6_DeleteRemoves ==
    [][/\ IsCleanCall("delete") =>
            /\ ret' = (call'.id \in Stored)
            /\ call'.id \notin Stored'
            /\ \A id \in Stored \ {call'.id} : id \in Stored' /\ db'[id] = db[id]
       /\ (call.op = "delete" /\ call.fault = "none" /\ ret = TRUE) =>
            /\ (IsCleanCall("get") /\ call'.id = call.id) => ret' = None
            /\ (IsCleanCall("exists") /\ call'.id = call.id) => ret' = FALSE
            /\ (IsCleanCall("delete") /\ call'.id = call.id) => ret' = FALSE]_vars

(* A get of an id that was assigned and then deleted returned not-found.   *)
C6_Witness ==
    /\ call.op = "get" /\ call.fault = "none"
    /\ ret = None
    /\ call.id < next_id
    /\ call.id \notin Stored

(* C7: get_polygon and update_polygon of an id that is not stored return   *)
(* None, raise nothing, and leave the table as it was.                     *)
C7_AbsentIdIsNotFound ==
    [][((IsCall("get") \/ IsCall("update")) /\ call'.id \notin Stored) =>
        /\ ret' = None
        /\ ~call'.raised
        /\ db' = db]_vars

(* An update of an absent id returned None while another polygon is        *)
(* stored.                                                                 *)
C7_Witness ==
    /\ call.op = "update" /\ call.fault = "none"
    /\ call.data.name # None
    /\ ret = None
    /\ call.id \notin Stored
    /\ Stored # {}

(* The value a method returns when the storage layer fails.               *)
Unsuccessful(op) ==
    CASE op \in {"create", "get", "update"} -> None
      [] op \in {"delete", "exists"} -> FALSE
      [] op = "list" -> [polygons |-> <<>>, total |-> 0]

(* C8: no exception leaves a service method; when the storage layer fails  *)
(* at any step, create, get and update return None, delete and exists      *)
(* return false, and list returns the empty sequence with total 0.         *)
C8_NoExceptionEscapes ==
    /\ ~call.raised
    /\ call.fault # "none" => ret = Unsuccessful(call.op)

(* An update whose refresh failed after the commit.                        *)
C8_Witness ==
    /\ call.op = "update" /\ call.fault = "refresh"
    /\ ret = None

(* C9 as claimed: a create, update or delete that met a storage failure    *)
(* leaves the table as it was.                                             *)
C9_FailureLeavesNoEffect ==
    [][((IsCall("create") \/ IsCall("update") \/ IsCall("delete"))
            /\ call'.fault # "none") =>
        db' = db]_vars

(* C10 as claimed: every stored polygon has a name that is not empty after *)
(* trimming and at most 255 characters long, and at least one ring.        *)
C10_StoredDataValid ==
    \A id \in Stored :
        /\ Strip(db[id].name) # <<>>
        /\ Len(db[id].name) <= NameMaxLength
        /\ Len(LoadCoordinates(db[id].coordinates)) >= CoordinatesMinItems

(* C12: created_at is set when the polygon is created and never changes:   *)
(* the create call returns the stored created_at, no step changes the      *)
(* created_at of a stored polygon, and every update returns the created_at *)
(* the polygon had before the call.                                        *)
C12_CreatedAtNeverChanges ==
    [][/\ \A id \in Stored \cap Stored' : db'[id].created_at = db[id].created_at
       /\ IsCleanCall("create") =>
            The(ret').created_at = IsoFormat(db'[The(ret').id].created_at)
       /\ (IsCleanCall("update") /\ call'.id \in Stored) =>
            The(ret').created_at = IsoFormat(db[call'.id].created_at)]_vars

(* An update made after the clock advanced returned the creation time.     *)
C12_Witness ==
    /\ call.op = "update" /\ call.fault = "none" /\ ret # None
    /\ The(ret).created_at = IsoFormat(0)
    /\ The(ret).updated_at = Some(IsoFormat(1))

(* C13 as claimed: updated_at is absent on creation, becomes present only  *)
(* by an update_polygon call on the id that succeeds, and every successful *)
(* update, whatever it supplies, sets it to the time of the call.          *)
C13_UpdatedAtIffUpdated ==
    [][/\ \A id \in Stored' \ Stored : db'[id].updated_at = None
       /\ \A id \in Stored \cap Stored' :
            db'[id].updated_at # db[id].updated_at =>
                (IsCall("update") /\ call'.id = id /\ ret' # None)
       /\ (IsCall("update") /\ ret' # None) =>
            /\ db'[call'.id].updated_at = Some(now)
            /\ The(ret').updated_at = Some(IsoFormat(now))]_vars

(* C17: an update that supplies properties stores exactly the supplied     *)
(* mapping: its keys are the supplied keys, keys of the old mapping that   *)
(* are not supplied are gone; supplied coordinates replace all rings.      *)
C17_UpdateReplacesWholesale ==
    [][(IsCleanCall("update") /\ call'.id \in Stored) =>
        /\ call'.data.properties # None =>
            LET new == The(call'.data.properties)
                old == The(SessionGet(db, call'.id)).properties
                got == The(ret').properties
            IN /\ DOMAIN got = DOMAIN new
               /\ \A k \in DOMAIN old \ DOMAIN new : k \notin DOMAIN got
               /\ \A k \in DOMAIN new : got[k] = new[k]
               /\ get_polygon(db', next_id', call'.id, "none").ret = ret'
        /\ call'.data.coordinates # None =>
            /\ Len(The(ret').coordinates) = Len(The(call'.data.coordinates))
            /\ \A r \in DOMAIN The(ret').coordinates :
                The(ret').coordinates[r] = The(call'.data.coordinates)[r]]_vars

(* An update supplied the tagged properties to a polygon that was created  *)
(* with the colour property: the colour key is gone.                       *)
C17_Witness ==
    /\ call.op = "update" /\ call.fault = "none" /\ ret # None
    /\ call.data.properties = Some(PropsTagged)
    /\ The(ret).name = NameA
    /\ "color" \notin DOMAIN The(ret).properties
    /\ "area" \in DOMAIN The(ret).properties

(* C18: polygon_exists(id) is true exactly when get_polygon(id) returns a  *)
(* polygon: true for a stored id, false for a deleted id and for an id     *)
(* that was never assigned.                                                *)
C18_ExistsIffGet ==
    (call.op = "exists" /\ call.fault = "none") =>
        /\ ret = (get_polygon(db, next_id, call.id, "none").ret # None)
        /\ ret = (call.id \in Stored)
        /\ call.id >= next_id => ret = FALSE

(* polygon_exists returned false for an id that was assigned and deleted   *)
(* while another polygon is stored.                                        *)
C18_Witness ==
    /\ call.op = "exists" /\ call.fault = "none"
    /\ ret = FALSE
    /\ call.id < next_id
    /\ Stored # {}

(* C20: create leaves every polygon stored before unchanged; update and    *)
(* delete of id X leave every polygon other than X unchanged; get, list    *)
(* and exists leave the table and the id sequence unchanged.               *)
C20_OnlyTheTargetChanges ==
    [][/\ IsCall("create") =>
            \A id \in Stored : id \in Stored' /\ db'[id] = db[id]
       /\ (IsCall("update") \/ IsCall("delete")) =>
            /\ \A id \in Stored \ {call'.id} : id \in Stored' /\ db'[id] = db[id]
            /\ Stored' \subseteq Stored
       /\ (IsCall("get") \/ IsCall("list") \/ IsCall("exists")) =>
            /\ db' = db
            /\ next_id' = next_id]_vars

(* Polygon 2 was updated while polygon 1, never updated, is stored.        *)
C20_Witness ==
    /\ call.op = "update" /\ call.fault = "none" /\ ret # None
    /\ call.id = 2
    /\ Stored = {1, 2}
    /\ db[1].updated_at = None
    /\ db[1].name # db[2].name

(* C14: every service call acquires one session and releases it when the  *)
(* call returns, whether it succeeded, found nothing or met a storage      *)
(* error: after every call no session is open, and the session of the call *)
(* is closed unless none could be opened.                                  *)
C14_SessionReleased ==
    /\ open_sessions = 0
    /\ call.op # "init" =>
        call.session = IF call.fault = "open" THEN "none" ELSE "closed"

(* A call whose commit failed has closed its session.                      *)
C14_Witness ==
    /\ call.fault = "commit"
    /\ call.session = "closed"
    /\ ret = Unsuccessful(call.op)

----------------------------------------------------------------------------
(* Properties of the map page.                                             *)

(* The step is an event handled by handler.                                *)
IsEvent(handler) == nevents' = nevents + 1 /\ ui'.handler = handler

(* C16: a request with an empty name, a name of more than 255 characters   *)
(* or no coordinates is never stored: every polygon a step stores has a    *)
(* name of 1 to 255 characters and at least one ring; a save whose request *)
(* is invalid reports the rejection, lets no exception escape, does not    *)
(* call the service and leaves the table as it was.                        *)
C16_InvalidRequestRejected ==
    [][/\ \A id \in Stored' \ Stored :
            /\ Len(db'[id].name) >= NameMinLength
            /\ Len(db'[id].name) <= NameMaxLength
            /\ Len(FromRow(id, db'[id]).coordinates) >= CoordinatesMinItems
       /\ IsEvent("save") =>
            /\ ~ui'.raised
            /\ ( /\ Len(Strip(ui'.name)) > 0
                 /\ current_drawing_data # None
                 /\ \/ Len(Strip(ui'.name)) > NameMaxLength
                    \/ Len(The(current_drawing_data)) = 0 ) =>
                /\ db' = db
                /\ next_id' = next_id
                /\ ui'.notify = "negative"
                /\ ui'.request = None
                /\ current_drawing_data' = current_drawing_data]_vars

(* A save with a name that is too long was rejected with a notification    *)
(* while a drawing is present and a polygon saved earlier is stored.       *)
C16_Witness ==
    /\ ui.handler = "save"
    /\ ui.name = NameTooLong
    /\ ui.notify = "negative"
    /\ ~ui.raised
    /\ current_drawing_data # None
    /\ Stored # {}

(* C19: a text that is empty or not JSON leaves the drawing and the        *)
(* visibility of the save form as they were; a JSON text replaces the      *)
(* drawing with the coordinates it denotes.  The table is never touched.   *)
C19_InvalidJsonKeepsDrawing ==
    [][IsEvent("received") =>
        /\ ui'.value \in {"", "polygon", "[[[0,0],[1,0]"} =>
            /\ current_drawing_data' = current_drawing_data
            /\ save_card_visible' = save_card_visible
        /\ ui'.value = "[[[0,0],[1,0],[1,1],[0,0]]]" =>
            current_drawing_data' = Some(CoordsA)
        /\ ui'.value = "[[[2,2],[3,2],[3,3],[2,2]]]" =>
            current_drawing_data' = Some(CoordsB)
        /\ ui'.value = "[]" => current_drawing_data' = Some(CoordsEmpty)
        /\ ~ui'.raised
        /\ db' = db]_vars

(* A text that is not JSON arrived while a drawing was waiting to be       *)
(* saved: the drawing is still there and the form still shown.             *)
C19_Witness ==
    /\ ui.handler = "received"
    /\ ui.value = "polygon"
    /\ ui.notify = "negative"
    /\ current_drawing_data = Some(CoordsA)
    /\ save_card_visible

----------------------------------------------------------------------------
(* Properties of calls that run at the same time.                          *)

(* C11: ids are unique and stable: the creates committed so far, also      *)
(* those that ran at the same time, received pairwise different ids, each  *)
(* of which is the id of one stored polygon; the commit of an update       *)
(* leaves the set of ids and every other row as they were, and an update   *)
(* returns the polygon under the id it was called with.                    *)
C11_IdsUniqueAndStable ==
    [][/\ \A i, j \in DOMAIN commit_log' :
            (i # j /\ commit_log'[i].op = "create" /\ commit_log'[j].op = "create")
                => commit_log'[i].id # commit_log'[j].id
       /\ Stored' = {commit_log'[i].id :
                        i \in {k \in DOMAIN commit_log' : commit_log'[k].op = "create"}}
       /\ \A p \in Procs :
            (sessions[p].pc = "pending" /\ sessions'[p].pc = "committed"
             /\ sessions[p].op = "update") =>
                /\ Stored' = Stored
                /\ \A id \in Stored \ {sessions[p].id} : db'[id] = db[id]
       /\ \A p \in Procs :
            (sessions[p].pc = "committed" /\ sessions'[p].pc = "idle") =>
                /\ sessions'[p].result # None
                /\ The(sessions'[p].result).id = sessions[p].id]_vars

(* Two creates that started from the same value of the id sequence have    *)
(* both returned, with different ids.                                      *)
C11_Witness ==
    /\ \A p \in Procs :
        /\ sessions[p].pc = "idle"
        /\ sessions[p].op = "create"
        /\ sessions[p].result # None
    /\ sessions[1].seen = sessions[2].seen
    /\ The(sessions[1].result).id # The(sessions[2].result).id
    /\ Stored = {1, 2}

(* C15: updates of the same id that run at the same time both return a     *)
(* polygon, and once all calls have finished the stored row is the one     *)
(* returned by the update that committed last.                             *)
C15_LastCommitWins ==
    (\A p \in Procs : sessions[p].pc = "idle") =>
        /\ \A p \in Procs :
            (sessions[p].op = "update" /\ sessions[p].loaded # None) =>
                sessions[p].result # None
        /\ (commit_log # <<>> /\ commit_log[Len(commit_log)].op = "update") =>
            LET last == commit_log[Len(commit_log)]
            IN sessions[last.p].n = last.n =>
                /\ sessions[last.p].result # None
                /\ sessions[last.p].result
                    = Some(from_polygon(FromRow(last.id, db[last.id])))

(* Two updates of polygon 1 that loaded the same row and supplied          *)
(* different fields have both returned a polygon.                          *)
C15_Witness ==
    /\ \A p \in Procs :
        /\ sessions[p].pc = "idle"
        /\ sessions[p].op = "update"
        /\ sessions[p].id = 1
        /\ sessions[p].result # None
    /\ sessions[1].loaded = sessions[2].loaded
    /\ sessions[1].data.name # None
    /\ sessions[2].data.coordinates # None
    /\ sessions[1].result # sessions[2].result

----------------------------------------------------------------------------
(* Properties of the save form.                                            *)

(* C21: a save with an empty or all-whitespace name, or with no drawing,   *)
(* calls create_polygon not at all, stores nothing and leaves the drawing  *)
(* and the visibility of the form as they were; a save that calls          *)
(* create_polygon had a drawing and a non-blank name and passes the        *)
(* trimmed name with the drawing as coordinates.                           *)
C21_SaveCallsCreateOnlyWhenReady ==
    [][IsEvent("save") =>
        /\ (Len(Strip(ui'.name)) = 0 \/ current_drawing_data = None) =>
            /\ ui'.request = None
            /\ ui'.notify = "warning"
            /\ db' = db
            /\ next_id' = next_id
            /\ current_drawing_data' = current_drawing_data
            /\ save_card_visible' = save_card_visible
        /\ ui'.request # None =>
            /\ current_drawing_data # None
            /\ Len(Strip(ui'.name)) > 0
            /\ The(ui'.request).name = Strip(ui'.name)
            /\ The(ui'.request).name[1] # " "
            /\ The(ui'.request).name[Len(The(ui'.request).name)] # " "
            /\ The(ui'.request).coordinates = The(current_drawing_data)
        /\ Stored' # Stored => ui'.request # None]_vars

(* A save with a name typed with spaces around it stored the polygon under *)
(* the trimmed name.                                                       *)
C21_Witness ==
    /\ ui.handler = "save"
    /\ ui.name = NamePadded
    /\ ui.request # None
    /\ ui.result # None
    /\ The(ui.result).name = NameA

(* C22: a save that succeeds clears the drawing and hides the form; a save *)
(* whose create_polygon fails keeps both; a drawing appears only when      *)
(* polygon data is received, so after a successful save a further save     *)
(* stores nothing until a drawing is received again.                       *)
C22_SaveClearsOnlyOnSuccess ==
    [][/\ (IsEvent("save") /\ ui'.result # None) =>
            /\ ui'.notify = "positive"
            /\ current_drawing_data' = None
            /\ save_card_visible' = FALSE
       /\ (IsEvent("save") /\ ui'.request # None /\ ui'.result = None) =>
            /\ ui'.notify = "negative"
            /\ current_drawing_data' = current_drawing_data
            /\ save_card_visible' = save_card_visible
       /\ (current_drawing_data = None /\ current_drawing_data' # None) =>
            IsEvent("received")
       /\ (IsEvent("save") /\ ui.handler = "save" /\ ui.result # None) =>
            /\ ui'.result = None
            /\ db' = db]_vars

(* A save whose create_polygon failed at the commit left the drawing and   *)
(* the form in place.                                                      *)
C22_Witness ==
    /\ ui.handler = "save"
    /\ ui.request # None
    /\ ui.result = None
    /\ ui.notify = "negative"
    /\ current_drawing_data = Some(CoordsA)
    /\ save_card_visible
    /\ Stored = {}

(* C23 as claimed: the save form is visible only if there is a current     *)
(* drawing to save.                                                        *)
C23_FormVisibleOnlyWithDrawing ==
    save_card_visible => current_drawing_data # None

====
